---- MODULE Spec2Model ----
(***************************************************************************)
(* Adaptive Resource Allocation Simulator (src/project.py).                *)
(*                                                                         *)
(* Two threads share the Process objects and the pid -> Process table:     *)
(*   - the Tk main thread runs add_process, delete_selected_process,       *)
(*     reset_all, update_system_usage and the update_process_row callbacks *)
(*     queued with root.after, one handler at a time;                      *)
(*   - the scheduler thread runs scheduler_loop.  It holds process_lock    *)
(*     only while it copies the table's values (references to the live     *)
(*     Process objects) and writes p.state / p.progress afterwards, with   *)
(*     no lock held, one attribute store at a time.                        *)
(*                                                                         *)
(* Numbers.  Requests are whole numbers (tk.Scale values) held as floats;  *)
(* sums of them are exact.  progress is held here in units of 1/40 of a    *)
(* percent, so that one tick adds cpu_alloc * 3 units (0.05*1.5 = 3/40)    *)
(* and 100.0 is 4000 units: real arithmetic, the double rounding of        *)
(* 0.05*1.5 (about 1e-15 per tick) is not represented.  No multiple of     *)
(* 3 * cpu_request equals 4000, so the rounding never moves the tick at    *)
(* which progress >= 100.0 first holds.                                    *)
(***************************************************************************)
EXTENDS Integers, Sequences, FiniteSets, TLC

\* ------------------------------------------------------------------ bounds
\* Process objects created in one run, and the ticks taken on a non-empty
\* table (the scheduler loop is followed that far) ...
MaxProcs == 3
MaxTicks == 2
\* ... and further, long enough to complete a process, in runs that create
\* no more than RunProcs Process objects in all
RunProcs == 1
RunTicks == 15
\* update_process_row callbacks of earlier ticks that may still wait in Tk's
\* event queue when a tick queues its own
MaxPending == 0
\* the processes and ticks of the runs that keep the histories
OpsProcs == 2
OpsTicks == 2
\* the processes and ticks of the runs that follow a process waiting behind
\* another to the other's completion, and the ticks in which they are created
DoneProcs == 2
DoneTicks == 15
DoneStart == 1
\* the processes of the runs that are followed until every process is
\* Completed, and the ticks in which they are created
LiveProcs == 2
LiveStart == 1

\* --------------------------------------------------------- program constants
BasePid == 1001
total_memory_mb == 2048
CpuCap == 100
\* progress units per percent, and 0.05*1.5 in those units
ProgressUnit == 40
scale == 3
Full == 100 * ProgressUnit

\* ------------------------------------------------------------------ inputs
\* what the user can type / set on the sliders (cpu 1..100, mem 0..2048)
Blank == " "
NameInputs == { <<Blank>>, <<Blank, "a", Blank>> }
Requests == { [cpu |-> 50, mem |-> 1024],
              [cpu |-> 100, mem |-> 0],
              [cpu |-> 70, mem |-> 1500] }
RunRequests == { [cpu |-> 100, mem |-> 0] }
DoneRequests == { [cpu |-> 100, mem |-> 0], [cpu |-> 100, mem |-> 1500] }

VARIABLES
    heap,           \* every Process object created so far: oid -> fields
    processes,      \* self.processes: the oids of its values, in insertion order
    next_pid,       \* self.next_pid
    tree,           \* self.tree: the rows, in order, each with its iid and values
    after,          \* root.after(0, update_process_row, ...) calls not yet run
    usage,          \* what update_system_usage last read and displayed
    updating,       \* self.updating
    root,           \* the Tk root: in its mainloop, or destroyed
    pc,             \* scheduler thread: the statement it executes next
    procs,          \* scheduler local: the snapshot list (oids)
    idx,            \* scheduler local: position in the loop being executed
    mem_used,       \* scheduler local
    ready_queue,    \* scheduler local (oids)
    running_procs,  \* scheduler local: <<p, cpu_alloc>> pairs
    cpu_allocated,  \* scheduler local
    pre,            \* history: the fields of procs[k] when the snapshot was taken
    published,      \* history: the arguments of the last tick's root.after calls
    issued,         \* history: the pids handed out since the last reset
    ticks,          \* history, per Process object: the ticks that evaluated
                    \* it, and whether it was alone in each
    nticks,         \* history: ticks started on a non-empty table
    event,          \* history (logging runs): the outcome of the last
                    \* handler the user triggered
    seen            \* history (logging runs): each snapshot a finished tick
                    \* evaluated, with what the tick made of it

vars == << heap, processes, next_pid, tree, after, usage, pc, procs, idx,
           mem_used, ready_queue, running_procs, cpu_allocated, pre,
           published, issued, ticks, nticks, updating, root, event, seen >>

sched == << pc, procs, idx, mem_used, ready_queue, running_procs,
            cpu_allocated, pre, published >>
gui == << processes, next_pid, tree, usage, issued, nticks >>
objs == << heap, ticks >>
ctl == << updating, root >>
hist == << event, seen >>

\* ----------------------------------------------------------------- helpers
Min(a, b) == IF a < b THEN a ELSE b

RECURSIVE SumSeq(_)
SumSeq(s) == IF s = <<>> THEN 0 ELSE Head(s) + SumSeq(Tail(s))

RECURSIVE LStrip(_)
LStrip(s) == IF s # <<>> /\ Head(s) = Blank THEN LStrip(Tail(s)) ELSE s

RECURSIVE RStrip(_)
RStrip(s) ==
    IF s # <<>> /\ s[Len(s)] = Blank THEN RStrip(SubSeq(s, 1, Len(s) - 1)) ELSE s

\* str.strip()
StripNone(s) == s
Strip(s) == RStrip(LStrip(s))

\* Process(pid, name, cpu_request, mem_request)
Process(pid, name, cpu_req, mem_req) ==
    [ pid |-> pid, name |-> name, cpu_request |-> cpu_req,
      mem_request |-> mem_req, progress |-> 0, state |-> "Ready" ]

\* the Process objects in self.processes
Live == { processes[k] : k \in DOMAIN processes }

\* position of key pid in the dict, 0 when absent
KeyIndex(pid) ==
    IF \E k \in DOMAIN processes : heap[processes[k]].pid = pid
    THEN CHOOSE k \in DOMAIN processes : heap[processes[k]].pid = pid
    ELSE 0

\* self.tree.exists(iid)
TreeExists(iid) == \E r \in DOMAIN tree : tree[r].iid = iid

\* f"{x:.1f}" of a progress value, in tenths of a percent
Fmt1(progress) == (progress * 10 + ProgressUnit \div 2) \div ProgressUnit

\* the row values update_process_row and add_process write
Row(iid, p, alloc_cpu, mem_disp) ==
    [ iid |-> iid, pid |-> heap[p].pid, name |-> heap[p].name,
      alloc_cpu |-> alloc_cpu, mem_used |-> mem_disp,
      progress |-> Fmt1(heap[p].progress), state |-> heap[p].state ]

\* -------------------------------------------------------------------- Init
Init ==
    /\ heap = <<>>
    /\ processes = <<>>
    /\ next_pid = BasePid
    /\ tree = <<>>
    /\ after = <<>>
    /\ usage = [ total_cpu |-> 0, total_mem |-> 0, cpu_bar |-> 0, mem_bar |-> 0 ]
    /\ pc = "sleep"
    /\ procs = <<>>
    /\ idx = 0
    /\ mem_used = 0
    /\ ready_queue = <<>>
    /\ running_procs = <<>>
    /\ cpu_allocated = 0
    /\ pre = <<>>
    /\ published = <<>>
    /\ issued = <<>>
    /\ ticks = <<>>
    /\ nticks = 0
    /\ updating = TRUE
    /\ root = "mainloop"
    /\ event = "none"
    /\ seen = {}

\* ------------------------------------------------------- Tk main thread
\* history: the outcome of the handler that runs
Log(on, e) == event' = IF on THEN e ELSE event

\* add_process, the name refused (line 184)
AddRefused(name, log) ==
    /\ root = "mainloop"
    /\ Strip(name) = <<>>
    /\ Log(log, "add refused")
    /\ UNCHANGED << objs, gui, after, sched, ctl, seen >>

\* self.next_pid += 1 (line 189)
NextPidBad(pid) == pid
NextPid(pid) == pid + 1

\* add_process, lines 185-200.  name_var / next_proc_index only prefill the
\* entry, whose text is an input here.  The last conjunct keeps runs that
\* have gone past maxTicks ticks to lateProcs Process objects.
AddAccepted(name, req, maxProcs, maxTicks, lateProcs, log) ==
    /\ root = "mainloop"
    /\ Strip(name) # <<>>
    /\ Len(heap) < maxProcs
    /\ nticks > maxTicks => Len(heap) < lateProcs
    /\ LET pid == next_pid
           p == Len(heap) + 1
           k == KeyIndex(pid)
       IN /\ next_pid' = NextPid(pid)
          /\ heap' = Append(heap, Process(pid, Strip(name), req.cpu, req.mem))
          /\ processes' = IF k = 0 THEN Append(processes, p)
                          ELSE [processes EXCEPT ![k] = p]
          \* tree.insert raises TclError when the iid is already a row
          /\ tree' = IF TreeExists(pid) THEN tree
                     ELSE Append(tree, [ iid |-> pid, pid |-> pid,
                                         name |-> Strip(name), alloc_cpu |-> 0,
                                         mem_used |-> 0, progress |-> 0,
                                         state |-> "Ready" ])
          /\ issued' = Append(issued, pid)
          /\ ticks' = Append(ticks, [ n |-> 0, alone |-> TRUE ])
    /\ Log(log, "add")
    /\ UNCHANGED << usage, after, sched, nticks, ctl, seen >>

AddProcess(names, reqs, maxProcs, maxTicks, lateProcs, log) ==
    \E name \in names, req \in reqs :
        \/ AddRefused(name, log)
        \/ AddAccepted(name, req, maxProcs, maxTicks, lateProcs, log)

\* delete_selected_process with nothing selected (line 213)
DeleteNoSelection(log) ==
    /\ root = "mainloop"
    /\ Log(log, "delete refused")
    /\ UNCHANGED << objs, gui, after, sched, ctl, seen >>

\* self.processes.pop(pid, None) (line 216): the table without key pid
PopOldest(table, pid) == SubSeq(table, 2, Len(table))
Pop(table, pid) == SelectSeq(table, LAMBDA p : heap[p].pid # pid)

\* delete_selected_process on the selected row (lines 214-218)
DeleteSelected(r, log) ==
    LET iid == tree[r].iid
        pid == tree[r].pid
    IN /\ root = "mainloop"
       /\ processes' = Pop(processes, pid)
       /\ tree' = SelectSeq(tree, LAMBDA row : row.iid # iid)
       /\ Log(log, "delete")
       /\ UNCHANGED << objs, next_pid, usage, issued, nticks, after, sched,
                       ctl, seen >>

DeleteSelectedProcess(log) ==
    DeleteNoSelection(log) \/ \E r \in DOMAIN tree : DeleteSelected(r, log)

\* self.next_pid = 1001 (line 229)
ResetPidKept == next_pid
ResetPid == BasePid

\* reset_all (lines 223-232); answering "no" changes nothing
ResetAll(log) ==
    /\ root = "mainloop"
    /\ \E yes \in BOOLEAN :
        IF yes
        THEN /\ processes' = <<>>
             /\ tree' = <<>>
             /\ next_pid' = ResetPid
             /\ issued' = <<>>
             /\ Log(log, "reset")
             /\ UNCHANGED << objs, usage, nticks, after, sched, ctl, seen >>
        ELSE /\ Log(log, "reset declined")
             /\ UNCHANGED << objs, gui, after, sched, ctl, seen >>

\* update_system_usage (lines 302-311).  Both sums are taken in one step:
\* process_lock does not stop the scheduler's stores, which could also fall
\* between two reads of one sum; such torn sums are not represented.
\* Each run re-arms the timer while self.updating holds (line 311), so a
\* call is pending for as long as the root lives.
UpdateSystemUsage ==
    LET total_cpu == SumSeq([k \in DOMAIN processes |->
                        IF heap[processes[k]].state = "Running"
                        THEN heap[processes[k]].cpu_request ELSE 0])
        total_mem == SumSeq([k \in DOMAIN processes |->
                        IF heap[processes[k]].state \in {"Ready", "Running"}
                        THEN heap[processes[k]].mem_request ELSE 0])
    IN /\ root = "mainloop"
       /\ usage' = [ total_cpu |-> total_cpu, total_mem |-> total_mem,
                     cpu_bar |-> Min(100, total_cpu),
                     \* mem_percent, times total_memory_mb
                     mem_bar |-> Min(100 * total_memory_mb, total_mem * 100) ]
       /\ UNCHANGED << objs, processes, next_pid, tree, issued, nticks, after,
                       sched, ctl, hist >>

\* update_process_row (lines 282-297), the oldest queued callback
UpdateProcessRow ==
    /\ root = "mainloop"
    /\ after # <<>>
    /\ LET e == Head(after)
           iid == heap[e.p].pid
       IN tree' = [ r \in DOMAIN tree |->
                      IF tree[r].iid = iid
                      THEN Row(iid, e.p, e.alloc_cpu, e.mem_used)
                      ELSE tree[r] ]
    /\ after' = Tail(after)
    /\ UNCHANGED << objs, processes, next_pid, usage, issued, nticks, sched,
                    ctl, hist >>

\* the WM_DELETE_WINDOW handler (line 324): app.stop() (line 316), then
\* root.destroy(), which ends the mainloop and drops the pending callbacks
Stop ==
    /\ root = "mainloop"
    /\ updating' = FALSE
    /\ root' = "destroyed"
    /\ after' = <<>>
    /\ UNCHANGED << objs, gui, sched, hist >>

\* ------------------------------------------------------ scheduler thread
\* The statement executed after loop `phase` has handled its items up to
\* i - 1: the next item of that loop, or the first item of the next
\* non-empty loop, or the row updates (loop exits touch only locals).
Position(phase, i, ps, rq, rp) ==
    CASE phase = "admit" /\ i <= Len(ps) -> << "admit", i >>
      [] phase = "admit" /\ i > Len(ps) /\ rq # <<>> -> << "grant", 1 >>
      [] phase = "admit" /\ i > Len(ps) /\ rq = <<>> -> << "publish", 0 >>
      [] phase = "grant" /\ i <= Len(rq) -> << "grant", i >>
      [] phase = "grant" /\ i > Len(rq) /\ rp # <<>> -> << "progress", 1 >>
      [] phase = "grant" /\ i > Len(rq) /\ rp = <<>> -> << "publish", 0 >>
      [] phase = "progress" /\ i <= Len(rp) -> << "progress", i >>
      [] OTHER -> << "publish", 0 >>

\* with self.process_lock: procs = list(self.processes.values()) (239-244,
\* and the locals of lines 257-258, which nothing reads before)
Snapshot(maxTicks, longProcs, longTicks) ==
    /\ pc = "sleep"
    /\ processes # <<>> =>
          \/ nticks < maxTicks
          \/ Len(heap) <= longProcs /\ nticks < longTicks
    /\ nticks' = IF processes # <<>> THEN nticks + 1 ELSE nticks
    /\ procs' = processes
    /\ pre' = [ k \in DOMAIN processes |-> heap[processes[k]] ]
    /\ mem_used' = 0
    /\ ready_queue' = <<>>
    /\ running_procs' = <<>>
    /\ cpu_allocated' = 0
    /\ pc' = Position("admit", 1, processes, <<>>, <<>>)[1]
    /\ idx' = Position("admit", 1, processes, <<>>, <<>>)[2]
    /\ UNCHANGED << objs, processes, next_pid, tree, usage, issued, after,
                    published, ctl, hist >>

\* not (mem_used + p.mem_request > self.total_memory_mb) (line 249)
FitsMemoryAlone(used, p) == ~ (heap[p].mem_request > total_memory_mb)
FitsMemory(used, p) == ~ (used + heap[p].mem_request > total_memory_mb)

\* mem_used after a process found Waiting (line 250 leaves it alone)
WaitingChargedMem(used, p) == used + heap[p].mem_request
WaitingMem(used, p) == used

\* if p.state == "Completed": continue (line 248)
SkippedNever(p) == FALSE
SkippedIfRemoved(p) ==
    heap[p].state = "Completed" \/ \A k \in DOMAIN processes : processes[k] # p
Skipped(p) == heap[p].state = "Completed"

\* one iteration of the admission loop (lines 247-254)
Admit ==
    /\ pc = "admit"
    /\ LET p == procs[idx]
           rq == IF ~ Skipped(p) /\ FitsMemory(mem_used, p)
                 THEN Append(ready_queue, p) ELSE ready_queue
           nxt == Position("admit", idx + 1, procs, rq, running_procs)
       IN /\ IF Skipped(p)
             THEN UNCHANGED << heap, mem_used >>
             ELSE IF FitsMemory(mem_used, p)
                  THEN /\ heap' = [heap EXCEPT ![p].state = "Ready"]
                       /\ mem_used' = mem_used + heap[p].mem_request
                  ELSE /\ heap' = [heap EXCEPT ![p].state = "Waiting"]
                       /\ mem_used' = WaitingMem(mem_used, p)
          /\ ready_queue' = rq
          /\ pc' = nxt[1]
          /\ idx' = nxt[2]
    /\ UNCHANGED << ticks, gui, after, procs, running_procs, cpu_allocated,
                    pre, published, ctl, hist >>

\* cpu_allocated + p.cpu_request <= 100.0 (line 260)
FitsCpuAlone(allocated, p) == heap[p].cpu_request <= CpuCap
FitsCpuByUsage(allocated, p) == usage.total_cpu + heap[p].cpu_request <= CpuCap
FitsCpuStrict(allocated, p) == allocated + heap[p].cpu_request < CpuCap
FitsCpu(allocated, p) == allocated + heap[p].cpu_request <= CpuCap

\* one iteration of the CPU loop (lines 259-265)
Grant ==
    /\ pc = "grant"
    /\ LET p == ready_queue[idx]
           ok == FitsCpu(cpu_allocated, p)
           rp == IF ok THEN Append(running_procs,
                                   [ p |-> p, cpu |-> heap[p].cpu_request ])
                 ELSE running_procs
           nxt == Position("grant", idx + 1, procs, ready_queue, rp)
       IN /\ heap' = [heap EXCEPT ![p].state = IF ok THEN "Running" ELSE "Ready"]
          /\ cpu_allocated' = IF ok THEN cpu_allocated + heap[p].cpu_request
                              ELSE cpu_allocated
          /\ running_procs' = rp
          /\ pc' = nxt[1]
          /\ idx' = nxt[2]
    /\ UNCHANGED << ticks, gui, after, procs, mem_used, ready_queue, pre,
                    published, ctl, hist >>

\* min(100.0, p.progress + cpu_alloc*scale) (line 270)
AdvancedUnclamped(progress, cpu_alloc) == progress + cpu_alloc * scale
AdvancedByTotal(progress, cpu_alloc) ==
    Min(Full, progress + cpu_allocated * scale)
Advanced(progress, cpu_alloc) == Min(Full, progress + cpu_alloc * scale)

\* p.progress >= 100.0 (line 271)
IsDoneLate(progress) == progress > Full
IsDone(progress) == progress >= Full

\* p.progress = ... (line 270), then the test of line 271
Progress ==
    /\ pc = "progress"
    /\ LET e == running_procs[idx]
           new == Advanced(heap[e.p].progress, e.cpu)
           nxt == Position("progress", idx + 1, procs, ready_queue,
                           running_procs)
       IN /\ heap' = [heap EXCEPT ![e.p].progress = new]
          /\ IF IsDone(new)
             THEN pc' = "complete" /\ idx' = idx
             ELSE pc' = nxt[1] /\ idx' = nxt[2]
    /\ UNCHANGED << ticks, gui, after, procs, mem_used, ready_queue,
                    running_procs, cpu_allocated, pre, published, ctl,
                    hist >>

\* p.state = "Completed" (line 272)
Complete ==
    /\ pc = "complete"
    /\ LET e == running_procs[idx]
           nxt == Position("progress", idx + 1, procs, ready_queue,
                           running_procs)
       IN /\ heap' = [heap EXCEPT ![e.p].state = "Completed"]
          /\ pc' = nxt[1]
          /\ idx' = nxt[2]
    /\ UNCHANGED << ticks, gui, after, procs, mem_used, ready_queue,
                    running_procs, cpu_allocated, pre, published, ctl,
                    hist >>

\* next((cpu for proc,cpu in running_procs if proc==p), 0.0) (line 277)
AllocCpu(p) ==
    IF \E k \in DOMAIN running_procs : running_procs[k].p = p
    THEN running_procs[CHOOSE k \in DOMAIN running_procs :
                           /\ running_procs[k].p = p
                           /\ \A j \in 1..(k - 1) : running_procs[j].p # p].cpu
    ELSE 0

\* p.mem_request if p.state in ["Ready","Running"] else 0.0 (line 276)
MemDisplayNotWaiting(p) ==
    IF heap[p].state # "Waiting" THEN heap[p].mem_request ELSE 0
MemDisplay(p) ==
    IF heap[p].state \in {"Ready", "Running"} THEN heap[p].mem_request ELSE 0

\* the arguments of the root.after calls of lines 275-278
TickOutput ==
    [ k \in DOMAIN procs |->
        [ p |-> procs[k], alloc_cpu |-> AllocCpu(procs[k]),
          mem_used |-> MemDisplay(procs[k]) ] ]

\* what a tick has made of its snapshot when it queues the row updates
TickResult ==
    [ k \in DOMAIN procs |->
        [ state |-> heap[procs[k]].state, progress |-> heap[procs[k]].progress,
          alloc_cpu |-> AllocCpu(procs[k]) ] ]

\* history: the finished tick joins the ticks seen
See(on) ==
    seen' = IF on /\ procs # <<>>
            THEN seen \cup { [ snap |-> pre, out |-> TickResult ] }
            ELSE seen

\* the row-update loop (lines 275-278) and time.sleep (line 280); the calls
\* are queued in one step: the loop reads only what this thread wrote
Publish(log) ==
    /\ pc = "publish"
    /\ root = "mainloop"
    /\ Len(after) <= MaxPending
    /\ published' = TickOutput
    /\ after' = after \o TickOutput
    /\ pc' = "sleep"
    /\ idx' = 0
    /\ procs' = <<>>
    /\ pre' = <<>>
    /\ mem_used' = 0
    /\ ready_queue' = <<>>
    /\ running_procs' = <<>>
    /\ cpu_allocated' = 0
    /\ ticks' = [ p \in DOMAIN ticks |->
                   IF \E k \in DOMAIN procs :
                          procs[k] = p /\ pre[k].state # "Completed"
                   THEN [ n |-> ticks[p].n + 1,
                          alone |-> ticks[p].alone /\ Len(procs) = 1 ]
                   ELSE ticks[p] ]
    /\ See(log)
    /\ UNCHANGED << heap, gui, ctl, event >>

\* the end of the scheduler thread once the root is destroyed: main()
\* returns and the interpreter exits, killing the daemon thread (line 63)
\* wherever it is; at the latest its next root.after (line 278) raises
Halt ==
    /\ root = "destroyed"
    /\ pc # "dead"
    /\ pc' = "dead"
    /\ UNCHANGED << objs, gui, after, ctl, procs, idx, mem_used, ready_queue,
                    running_procs, cpu_allocated, pre, published, hist >>

\* ---------------------------------------------------------- specification
\* log: whether the run keeps the histories event and seen
NextWith(names, reqs, maxProcs, maxTicks, lateProcs, longProcs, longTicks, log) ==
    \/ AddProcess(names, reqs, maxProcs, maxTicks, lateProcs, log)
    \/ DeleteSelectedProcess(log)
    \/ ResetAll(log)
    \/ UpdateSystemUsage
    \/ UpdateProcessRow
    \/ Snapshot(maxTicks, longProcs, longTicks)
    \/ Admit
    \/ Grant
    \/ Progress
    \/ Complete
    \/ Publish(log)

\* up to MaxProcs processes of mixed requests, followed for MaxTicks ticks
\* (RunTicks while no more than RunProcs have been created)
Next ==
    NextWith(NameInputs, Requests, MaxProcs, MaxTicks, RunProcs, RunProcs,
             RunTicks, FALSE)
Spec == Init /\ [][Next]_vars

\* up to RunProcs processes that ask for the whole CPU, followed for RunTicks
\* ticks: long enough to complete
NextRun ==
    NextWith(NameInputs, RunRequests, RunProcs, RunTicks, RunProcs, RunProcs,
             RunTicks, FALSE)
SpecRun == Init /\ [][NextRun]_vars

\* up to OpsProcs processes that ask for the whole CPU, followed for OpsTicks
\* ticks (RunTicks while no more than RunProcs have been created), with the
\* histories of handlers and ticks kept, until the window is closed
NextOps ==
    \/ NextWith(NameInputs, RunRequests, OpsProcs, OpsTicks, RunProcs,
                RunProcs, RunTicks, TRUE)
    \/ Stop
    \/ Halt
SpecOps == Init /\ [][NextOps]_vars

\* up to DoneProcs processes that ask for the whole CPU, all created before
\* the tick after the first DoneStart, and followed for DoneTicks ticks:
\* long enough for one to complete and the one behind it to run
NextDone ==
    NextWith(NameInputs, DoneRequests, DoneProcs, DoneStart, 0, DoneProcs,
             DoneTicks, FALSE)
SpecDone == Init /\ [][NextDone]_vars

\* ticks a process of cpu_request 100 runs before progress >= 100.0
TicksToComplete == (Full + CpuCap * scale - 1) \div (CpuCap * scale)
\* ticks after which LiveProcs such processes, run one after the other from
\* tick LiveStart on, are all Completed
LiveTicks == LiveStart + TicksToComplete * LiveProcs

\* one step of the scheduler thread
Tick ==
    \/ Snapshot(LiveStart, LiveProcs, LiveTicks)
    \/ Admit
    \/ Grant
    \/ Progress
    \/ Complete
    \/ Publish(FALSE)

\* up to LiveProcs processes that ask for the whole CPU, all created before
\* the tick after the first LiveStart, followed for LiveTicks ticks.  The
\* scheduler thread keeps running (its only wait is time.sleep) and the Tk
\* mainloop keeps running the callbacks queued with root.after; the user
\* owes nothing.
NextLive ==
    NextWith(NameInputs, RunRequests, LiveProcs, LiveStart, 0, LiveProcs,
             LiveTicks, FALSE)
SpecLive ==
    Init /\ [][NextLive]_vars /\ WF_vars(Tick) /\ WF_vars(UpdateProcessRow)

\* ================================================================ claims
\* memory requested by the live processes that count as occupying memory
MemOccupied ==
    SumSeq([ k \in DOMAIN processes |->
               IF heap[processes[k]].state \in {"Ready", "Running"}
               THEN heap[processes[k]].mem_request ELSE 0 ])

\* CPU requested by the live processes that are Running
CpuRunning ==
    SumSeq([ k \in DOMAIN processes |->
               IF heap[processes[k]].state = "Running"
               THEN heap[processes[k]].cpu_request ELSE 0 ])

\* memory requested by the snapshot's processes that are Ready or Running
SnapshotMem ==
    SumSeq([ k \in DOMAIN procs |->
               IF heap[procs[k]].state \in {"Ready", "Running"}
               THEN heap[procs[k]].mem_request ELSE 0 ])

InQueue(p) == \E j \in DOMAIN ready_queue : ready_queue[j] = p
InRunning(p) == \E j \in DOMAIN running_procs : running_procs[j].p = p

\* C1: in every reachable state the memory requested by the live Ready or
\* Running processes is at most 2048 MB, and no read of the usage reducer
\* sums more than that.
C1_MemoryCapEverywhere ==
    /\ MemOccupied <= total_memory_mb
    /\ usage.total_mem <= total_memory_mb

\* C2: when a tick has finished its passes, the memory requested by the
\* processes of its snapshot that it left Ready or Running is at most 2048.
C2_TickMemoryCap ==
    pc = "publish" => SnapshotMem <= total_memory_mb

\* a tick that filled the cap exactly and left a process Waiting
C2_Witness ==
    /\ pc = "publish"
    /\ SnapshotMem = total_memory_mb
    /\ \E k \in DOMAIN procs : heap[procs[k]].state = "Waiting"

\* C3: in every reachable state, the steps inside a tick included, the CPU
\* requested by the live Running processes is at most 100.
C3_CpuCapEverywhere == CpuRunning <= CpuCap

\* the second tick is resetting states while a process granted by the first
\* is still Running, and the reducer has read a full CPU
C3_Witness ==
    /\ pc = "admit"
    /\ idx > 1
    /\ nticks = 2
    /\ CpuRunning > 0
    /\ usage.total_cpu = CpuCap

\* the admission pass of section 4.2 on the snapshot: the running memory
\* total after its first k processes, and whether the k-th is admitted
RECURSIVE RefMemTotal(_)
RefMemTotal(k) ==
    IF k = 0 THEN 0
    ELSE LET t == RefMemTotal(k - 1)
         IN IF /\ pre[k].state # "Completed"
               /\ t + pre[k].mem_request <= total_memory_mb
            THEN t + pre[k].mem_request ELSE t

RefAdmitted(k) ==
    /\ pre[k].state # "Completed"
    /\ RefMemTotal(k - 1) + pre[k].mem_request <= total_memory_mb

\* the CPU pass of section 4.2 on the snapshot: the running CPU total after
\* its first k processes, and whether the k-th is granted
RECURSIVE RefCpuAfter(_)
RefCpuAfter(k) ==
    IF k = 0 THEN 0
    ELSE LET t == RefCpuAfter(k - 1)
         IN IF RefAdmitted(k) /\ t + pre[k].cpu_request <= CpuCap
            THEN t + pre[k].cpu_request ELSE t

RefGrantedAt(k) ==
    /\ RefAdmitted(k)
    /\ RefCpuAfter(k - 1) + pre[k].cpu_request <= CpuCap

\* the state section 4.2 gives the k-th process of the snapshot
RefFinalState(k) ==
    CASE pre[k].state = "Completed" -> "Completed"
      [] pre[k].state # "Completed" /\ ~ RefAdmitted(k) -> "Waiting"
      [] RefAdmitted(k) /\ ~ RefGrantedAt(k) -> "Ready"
      [] RefGrantedAt(k) ->
            IF pre[k].progress + pre[k].cpu_request * scale >= Full
            THEN "Completed" ELSE "Running"

\* the live processes of the snapshot show the states the snapshot saw
ViewIsPre ==
    \A k \in DOMAIN procs :
        procs[k] \in Live => heap[procs[k]].state = pre[k].state

\* the live processes of the snapshot show the states the tick ends with
ViewIsPost ==
    \A k \in DOMAIN procs :
        procs[k] \in Live => heap[procs[k]].state = RefFinalState(k)

\* C4: a read of the usage reducer sees the states of a tick's processes
\* either as they were when the tick took its snapshot or as they are after
\* all of its updates, never in between.
C4_ReadsSeeWholeTicks ==
    [][ UpdateSystemUsage => (ViewIsPre \/ ViewIsPost) ]_vars

\* C5: progress starts at 0, never decreases in a step, never exceeds 100.
C5_ProgressMonotone ==
    /\ [](\A p \in DOMAIN heap : heap[p].progress \in 0..Full)
    /\ [][ \A p \in DOMAIN heap' :
             IF p \in DOMAIN heap
             THEN heap'[p].progress >= heap[p].progress
             ELSE heap'[p].progress = 0 ]_vars

\* a process was clamped at 100 and later ticks ran
C5_Witness ==
    \E p \in DOMAIN heap :
        /\ heap[p].progress = Full
        /\ ticks[p].n * heap[p].cpu_request * scale > Full
        /\ nticks > ticks[p].n

\* the allocated CPU a tick published for process p, as a set
PublishedFor(out, p) ==
    { out[k].alloc_cpu : k \in { j \in DOMAIN out : out[j].p = p } }

\* C6 as claimed: once a process is Completed no step changes its state or
\* progress, and a later tick publishes the allocated CPU the tick before
\* published for it.
C6_CompletedFrozen ==
    [][ \A p \in DOMAIN heap :
          heap[p].state = "Completed" =>
            /\ heap'[p].state = "Completed"
            /\ heap'[p].progress = heap[p].progress
            /\ \A a \in PublishedFor(published, p),
                  b \in PublishedFor(published', p) : a = b ]_vars

\* C6 as amended: once a process is Completed no step changes its state or
\* progress, and every tick whose snapshot finds it Completed publishes
\* allocated CPU 0 and memory used 0 for it.
C6_CompletedStable ==
    [][ /\ \A p \in DOMAIN heap :
             heap[p].state = "Completed" => heap'[p] = heap[p]
        /\ (pc = "publish" /\ pc' = "sleep") =>
             \A k \in DOMAIN procs :
                 pre[k].state = "Completed" =>
                   /\ published'[k].p = procs[k]
                   /\ published'[k].alloc_cpu = 0
                   /\ published'[k].mem_used = 0 ]_vars

\* a tick that found the process Completed has published 0 for it
C6_Witness ==
    /\ pc = "sleep"
    /\ \E k \in DOMAIN published :
          /\ heap[published[k].p].state = "Completed"
          /\ published[k].alloc_cpu = 0
          /\ ticks[published[k].p].n < nticks

\* the admission loop has handled procs[k]
Admitted(k) == pc \in {"grant", "progress", "complete", "publish"}
                  \/ (pc = "admit" /\ k < idx)

\* C7: of the snapshot's non-Completed processes, taken in order, exactly
\* those with running_total + mem_request <= 2048 are admitted; the others
\* are Waiting, add nothing to the total, and are granted no CPU.
C7_Admission ==
    \A k \in DOMAIN procs :
        (Admitted(k) /\ pre[k].state # "Completed") =>
            /\ RefAdmitted(k) <=> InQueue(procs[k])
            /\ RefAdmitted(k) => heap[procs[k]].state # "Waiting"
            /\ ~ RefAdmitted(k) =>
                 /\ heap[procs[k]].state = "Waiting"
                 /\ ~ InRunning(procs[k])
                 /\ AllocCpu(procs[k]) = 0
            /\ pc # "admit" => mem_used = RefMemTotal(Len(procs))

\* admitted, Waiting, admitted: the third fills the cap exactly
C7_Witness ==
    /\ pc = "publish"
    /\ Len(procs) = 3
    /\ ready_queue = << procs[1], procs[3] >>
    /\ heap[procs[2]].state = "Waiting"
    /\ mem_used = total_memory_mb

\* the CPU pass of section 4.2 on the admitted processes: the running CPU
\* total after the first j of them, and whether the j-th is granted
RECURSIVE RefCpuTotal(_)
RefCpuTotal(j) ==
    IF j = 0 THEN 0
    ELSE LET t == RefCpuTotal(j - 1)
         IN IF t + heap[ready_queue[j]].cpu_request <= CpuCap
            THEN t + heap[ready_queue[j]].cpu_request ELSE t

RefGranted(j) ==
    RefCpuTotal(j - 1) + heap[ready_queue[j]].cpu_request <= CpuCap

\* the CPU loop has handled ready_queue[j]
Granted(j) == pc \in {"progress", "complete", "publish"}
                 \/ (pc = "grant" /\ j < idx)

\* the progress loop has handled running_procs[j]
Progressed(p) ==
    \/ pc = "publish"
    \/ \E j \in DOMAIN running_procs :
          /\ running_procs[j].p = p
          /\ pc \in {"progress", "complete"}
          /\ j < idx

\* C8: of the admitted processes, taken in order, exactly those with
\* running_total_cpu + cpu_request <= 100 are granted (Running, allocated
\* cpu_request); the others stay Ready with allocated CPU 0 and add nothing
\* to the total.
C8_CpuGrant ==
    \A j \in DOMAIN ready_queue :
        Granted(j) =>
            LET p == ready_queue[j]
            IN /\ RefGranted(j) <=> InRunning(p)
               /\ RefGranted(j) =>
                    /\ AllocCpu(p) = heap[p].cpu_request
                    /\ heap[p].state = "Running"
                         \/ (heap[p].progress = Full /\ Progressed(p))
               /\ ~ RefGranted(j) =>
                    /\ AllocCpu(p) = 0
                    /\ heap[p].state = "Ready"
               /\ pc # "grant" =>
                    cpu_allocated = RefCpuTotal(Len(ready_queue))

\* granted, starved, granted: the third fills the CPU exactly
C8_Witness ==
    /\ pc = "publish"
    /\ Len(ready_queue) = 3
    /\ heap[ready_queue[1]].state = "Running"
    /\ heap[ready_queue[2]].state = "Ready"
    /\ heap[ready_queue[3]].state = "Running"
    /\ cpu_allocated = CpuCap
    /\ TickOutput[2].alloc_cpu = 0
    /\ TickOutput[3].alloc_cpu = heap[ready_queue[3]].cpu_request

\* a process that asks for all the CPU and no memory, was alone in every
\* tick that evaluated it, and is not in a tick in progress
Lone(p) ==
    /\ heap[p].cpu_request = 100
    /\ heap[p].mem_request = 0
    /\ ticks[p].alone
    /\ \A k \in DOMAIN procs : procs[k] # p

\* C9: a lone process of cpu_request 100, mem_request 0 is Running with
\* progress 7.5*k after its k-th tick, k = 1..13, and Completed with
\* progress 100 after its 14th, which is its last.
C9_LoneCompletion ==
    \A p \in DOMAIN heap :
        Lone(p) =>
            LET k == ticks[p].n
            IN /\ k <= 14
               /\ k = 0 => heap[p].state = "Ready" /\ heap[p].progress = 0
               /\ k \in 1..13 =>
                    /\ heap[p].state = "Running"
                    /\ 2 * heap[p].progress = 15 * k * ProgressUnit
               /\ k = 14 =>
                    /\ heap[p].state = "Completed"
                    /\ heap[p].progress = 100 * ProgressUnit

\* the 14th tick is over, and two more ticks have left the process alone
C9_Witness ==
    \E p \in DOMAIN heap :
        /\ Lone(p)
        /\ ticks[p].n = 14
        /\ heap[p].state = "Completed"
        /\ nticks >= 15

\* C10: between two resets every Add returns an id greater than all ids
\* returned before, the first being 1001, whatever Removes and ticks come in
\* between; the live processes have pairwise distinct ids.
C10_FreshIds ==
    /\ issued # <<>> => issued[1] = BasePid
    /\ \A i, j \in DOMAIN issued : i < j => issued[i] < issued[j]
    /\ \A i, j \in DOMAIN processes :
          i # j => heap[processes[i]].pid # heap[processes[j]].pid
    /\ \A i \in DOMAIN processes :
          \E j \in DOMAIN issued : issued[j] = heap[processes[i]].pid

\* three ids handed out, the first two freed by Remove, a tick under way
C10_Witness ==
    /\ Len(issued) = 3
    /\ Len(processes) = 1
    /\ heap[processes[1]].pid = BasePid + 2
    /\ pc = "grant"

\* C11: after a Reset, whatever the state it is taken in, the registry holds
\* no process until the next Add, and that Add returns the base id 1001 and
\* registers the process it creates, alone.
C11_ResetRestarts ==
    /\ [](issued = <<>> => processes = <<>>)
    /\ [][ (issued = <<>> /\ Len(heap') > Len(heap)) =>
             /\ heap'[Len(heap')].pid = 1001
             /\ processes' = << Len(heap') >>
             /\ next_pid' = 1002 ]_vars

\* a Reset was confirmed while a tick was under way on the first process,
\* and the Add after it has returned 1001 again
C11_Witness ==
    /\ event = "add"
    /\ Len(heap) = 2
    /\ heap[1].pid = 1001
    /\ heap[2].pid = 1001
    /\ processes = << 2 >>
    /\ procs = << 1 >>

\* a name that is empty once trimmed
BlankOnly(name) == \A i \in DOMAIN name : name[i] = Blank

\* an Add of the logging runs, whatever its outcome
AddStep(name, req) ==
    \/ AddRefused(name, TRUE)
    \/ AddAccepted(name, req, OpsProcs, OpsTicks, RunProcs, TRUE)

\* C12: an Add whose name is empty after trimming changes neither the
\* processes, their fields, the rows nor the next id, and the valid Add that
\* follows it receives the id after the last one handed out.
C12_RefusedAddNoEffect ==
    [][ /\ \A name \in NameInputs, req \in RunRequests :
             (BlankOnly(name) /\ AddStep(name, req)) =>
                 /\ event' = "add refused"
                 /\ UNCHANGED << heap, processes, next_pid, tree, issued >>
        /\ (event = "add refused" /\ event' = "add") =>
              heap'[Len(heap')].pid = BasePid + Len(issued) ]_vars

\* a blank name has just been refused, with one process registered and a
\* tick under way
C12_Witness ==
    /\ event = "add refused"
    /\ Len(processes) = 1
    /\ next_pid = BasePid + 1
    /\ pc = "grant"

\* the table without its k-th entry
Without(table, k) ==
    SubSeq(table, 1, k - 1) \o SubSeq(table, k + 1, Len(table))

TickStarts == pc = "sleep" /\ pc' \notin {"sleep", "dead"}

\* C14: once the stop signal is given (self.updating is False), no step
\* starts a scheduling tick and no step runs the usage reducer.
C14_StopHalts ==
    [][ ~ updating => (~ TickStarts /\ ~ UpdateSystemUsage) ]_vars

\* the progress section 4.2 gives the k-th process of the snapshot
RefProgress(k) ==
    IF RefGrantedAt(k)
    THEN Min(Full, pre[k].progress + pre[k].cpu_request * scale)
    ELSE pre[k].progress

\* the allocated CPU and memory used section 4.2 publishes for it
RefAllocCpu(k) == IF RefGrantedAt(k) THEN pre[k].cpu_request ELSE 0
RefMemDisplay(k) ==
    IF RefFinalState(k) \in {"Ready", "Running"} THEN pre[k].mem_request ELSE 0

\* C15: from its snapshot to its end a tick evaluates the same processes in
\* the same order, whatever Add, Remove or Reset runs meanwhile, and what it
\* leaves and publishes is what the two passes of section 4.2 give on the
\* snapshot alone.
C15_FrozenView ==
    /\ [][ (pc \notin {"sleep", "dead"} /\ pc' \notin {"sleep", "dead"}) =>
             (procs' = procs /\ pre' = pre) ]_vars
    /\ [](pc = "publish" =>
            \A k \in DOMAIN procs :
                /\ heap[procs[k]].pid = pre[k].pid
                /\ heap[procs[k]].state = RefFinalState(k)
                /\ heap[procs[k]].progress = RefProgress(k)
                /\ TickOutput[k].p = procs[k]
                /\ TickOutput[k].alloc_cpu = RefAllocCpu(k)
                /\ TickOutput[k].mem_used = RefMemDisplay(k))

\* the first of three processes was removed after the snapshot; the tick
\* still ran it and still left the second Waiting behind its memory
C15_Witness ==
    /\ pc = "publish"
    /\ Len(procs) = 3
    /\ processes = << procs[2], procs[3] >>
    /\ heap[procs[1]].state = "Running"
    /\ heap[procs[2]].state = "Waiting"
    /\ heap[procs[3]].state = "Running"

\* what identifies a snapshot: ids, requests, states and progress, in order
SnapKey(snap) ==
    [ k \in DOMAIN snap |->
        [ pid |-> snap[k].pid, cpu_request |-> snap[k].cpu_request,
          mem_request |-> snap[k].mem_request, state |-> snap[k].state,
          progress |-> snap[k].progress ] ]

C17_ProgressFrame ==
    /\ [][ \A p \in DOMAIN heap :
             heap'[p].progress # heap[p].progress =>
                 /\ pc = "progress"
                 /\ running_procs[idx].p = p
                 /\ heap[p].state = "Running"
                 /\ heap'[p].progress =
                        Min(100 * ProgressUnit,
                            heap[p].progress + heap[p].cpu_request * 3) ]_vars
    /\ [](pc = "publish" =>
            \A k \in DOMAIN procs :
                heap[procs[k]].progress =
                    IF InRunning(procs[k])
                    THEN Min(100 * ProgressUnit,
                             pre[k].progress + pre[k].cpu_request * 3)
                    ELSE pre[k].progress)

\* a process that ran in the tick before is Waiting in this one (a process
\* ahead of it took the memory) and has kept its progress
C17_Witness ==
    /\ pc = "publish"
    /\ \E k \in DOMAIN procs :
          /\ pre[k].state = "Running"
          /\ pre[k].progress > 0
          /\ heap[procs[k]].state = "Waiting"
          /\ heap[procs[k]].progress = pre[k].progress

\* the snapshot's processes before the k-th were all Completed when it was
\* taken
OnlyCompletedAhead(k) == \A j \in 1..(k - 1) : pre[j].state = "Completed"

\* C18: a tick does not admit or grant a process its snapshot found
\* Completed and publishes allocated CPU 0 and memory used 0 for it; its
\* memory and CPU totals are those of the processes it admitted and granted;
\* so a process with only Completed processes ahead of it is granted.
C18_CompletedSkipped ==
    pc = "publish" =>
        /\ \A k \in DOMAIN procs :
              pre[k].state = "Completed" =>
                  /\ ~ InQueue(procs[k])
                  /\ ~ InRunning(procs[k])
                  /\ heap[procs[k]] = pre[k]
                  /\ TickOutput[k].alloc_cpu = 0
                  /\ TickOutput[k].mem_used = 0
        /\ mem_used = SumSeq([ k \in DOMAIN procs |->
                         IF pre[k].state # "Completed" /\ InQueue(procs[k])
                         THEN pre[k].mem_request ELSE 0 ])
        /\ cpu_allocated = SumSeq([ k \in DOMAIN procs |->
                              IF pre[k].state # "Completed" /\ InRunning(procs[k])
                              THEN pre[k].cpu_request ELSE 0 ])
        /\ \A k \in DOMAIN procs :
              (pre[k].state # "Completed" /\ OnlyCompletedAhead(k)) =>
                  /\ InRunning(procs[k])
                  /\ TickOutput[k].alloc_cpu = pre[k].cpu_request

\* the first tick after the completion of the process ahead: the second
\* process, Waiting for memory until then, is admitted and runs
C18_Witness ==
    /\ pc = "publish"
    /\ Len(procs) = 2
    /\ pre[1].state = "Completed"
    /\ pre[2].state = "Waiting"
    /\ pre[2].progress = 0
    /\ ticks[procs[2]].n >= 14
    /\ heap[procs[2]].state = "Running"
    /\ mem_used = pre[2].mem_request

\* Process object p is in the registry
Registered(p) ==
    p \in DOMAIN heap /\ \E k \in DOMAIN processes : processes[k] = p

\* C19: while ticks keep occurring, every registered process is eventually
\* Completed, unless a Remove or a Reset takes it out of the registry first,
\* whatever other processes are added or removed meanwhile.
C19_NoStarvation ==
    \A p \in 1..LiveProcs :
        [](Registered(p) => <>(~ Registered(p) \/ heap[p].state = "Completed"))

\* two processes, the second Ready without CPU behind the first until the
\* first completed, were left in the registry and are both Completed
C19_Witness ==
    /\ Len(processes) = 2
    /\ \A k \in DOMAIN processes : heap[processes[k]].state = "Completed"
    /\ ticks[processes[2]].n = 2 * TicksToComplete

\* C20: a queued tick result changes a row only if the Process object the
\* tick computed it for is the one registered under the row's id.
C20_NoStalePublication ==
    [][ (UpdateProcessRow /\ tree' # tree) => Registered(Head(after).p) ]_vars

====
